---------------------------- MODULE Spec2Model ----------------------------
(***************************************************************************)
(* Model of the DB2 -> SQL Server synchronisation engine                   *)
(* (app/services/sincronizacion_db2_v2.py) and of the record processor     *)
(* daemon (app/services/daemon_procesador.py, fj_httpx_fallback.py).       *)
(*                                                                         *)
(* Tables are sequences: the position of a row is its autoincrement id and *)
(* its creation order.  Rows are never removed.                            *)
(***************************************************************************)
EXTENDS Integers, Sequences, FiniteSets, TLC

(***************************************************************************)
(* Bounds of the model.                                                    *)
(***************************************************************************)
MaxLote      == 2   \* longest list obtener_clientes_db2 returns
MaxLlamadas  == 2   \* number of sincronizar_clientes_db2 calls explored
MaxHilos     == 2   \* daemon threads that may exist at once
MaxProcesos  == 2   \* rows of de_procesos_rpa explored
EsperaTicks  == 1   \* one-second polls of the wait phase (1800 in the code)
MaxClientes  == 2   \* rows of de_clientes_rpa_v2 the processor starts with
MaxFallos    == 1   \* database operations of the processor that fail in one run
MaxPagina    == 22  \* pages of the judicial service a lookup may be answered for
MaxPorPagina == 2   \* most items one page of the service carries
MaxLargo     == 3   \* longest name column a search name is built from

None == "None"

(***************************************************************************)
(* Strings are sequences of one-character strings.                         *)
(***************************************************************************)
RECURSIVE StripIzq(_)
StripIzq(s) ==
    IF s = <<>> THEN <<>>
    ELSE IF Head(s) = " " THEN StripIzq(Tail(s)) ELSE s

RECURSIVE StripDer(_)
StripDer(s) ==
    IF s = <<>> THEN <<>>
    ELSE IF s[Len(s)] = " " THEN StripDer(SubSeq(s, 1, Len(s) - 1)) ELSE s

\* str.strip()
Strip(s) == StripDer(StripIzq(s))

\* a replacement that turns the hyphen into a blank and keeps the period
RECURSIVE ReemplazarSoloGuion(_)
ReemplazarSoloGuion(s) ==
    IF s = <<>> THEN <<>>
    ELSE IF Head(s) = "-" THEN <<" ">> \o ReemplazarSoloGuion(Tail(s))
    ELSE <<Head(s)>> \o ReemplazarSoloGuion(Tail(s))

\* str.replace("-", " ").replace(".", "")
RECURSIVE ReemplazarGuionPunto(_)
ReemplazarGuionPunto(s) ==
    IF s = <<>> THEN <<>>
    ELSE LET r == ReemplazarGuionPunto(Tail(s))
         IN  IF Head(s) = "-" THEN <<" ">> \o r
             ELSE IF Head(s) = "." THEN r
             ELSE <<Head(s)>> \o r

\* " ".join(s.split()): runs of blanks collapse to one, none at the ends
RECURSIVE ColapsarEspacios(_)
ColapsarEspacios(s) ==
    IF s = <<>> THEN <<>>
    ELSE IF Head(s) = " "
         THEN LET r == ColapsarEspacios(StripIzq(s))
              IN  IF r = <<>> THEN <<>> ELSE <<" ">> \o r
         ELSE <<Head(s)>> \o ColapsarEspacios(Tail(s))

NormalizarEspacios(s) == Strip(ColapsarEspacios(s))

\* _construir_nombre_busqueda(apellidos, nombres)
ConstruirNombreBusqueda(apellidos, nombres) ==
    LET a0 == Strip(IF apellidos = None THEN <<>> ELSE apellidos)
        n0 == Strip(IF nombres = None THEN <<>> ELSE nombres)
        a  == ReemplazarGuionPunto(a0)
        n  == ReemplazarGuionPunto(n0)
        nombre_completo ==
            IF a # <<>> /\ n # <<>> THEN a \o <<" ">> \o n
            ELSE IF a # <<>> THEN a
            ELSE IF n # <<>> THEN n
            ELSE <<>>
    IN  NormalizarEspacios(nombre_completo)

(***************************************************************************)
(* The source system.  Each row obtener_clientes_db2 can return: its       *)
(* ID_SOLICITUD (never null: it is the join key of the query), the         *)
(* applicant's names, and whether the destination table rejects the row    *)
(* for a reason other than the unique index (malo: a value that does not   *)
(* fit its column, such as a CEDULA longer than 10 characters).            *)
(***************************************************************************)
Fuente ==
    { [ID_SOLICITUD |-> 1, APELLIDOS_CLIENTE |-> <<"A">>, NOMBRES_CLIENTE |-> <<"B">>,
       malo |-> FALSE],
      [ID_SOLICITUD |-> 2, APELLIDOS_CLIENTE |-> <<"-">>, NOMBRES_CLIENTE |-> None,
       malo |-> FALSE],
      [ID_SOLICITUD |-> 3, APELLIDOS_CLIENTE |-> <<"C">>, NOMBRES_CLIENTE |-> <<"D">>,
       malo |-> FALSE],
      [ID_SOLICITUD |-> 4, APELLIDOS_CLIENTE |-> <<"E">>, NOMBRES_CLIENTE |-> <<"F">>,
       malo |-> TRUE] }

RECURSIVE SeqsHasta(_, _)
SeqsHasta(S, n) ==
    IF n = 0 THEN { <<>> }
    ELSE LET menores == SeqsHasta(S, n - 1)
         IN  menores \cup { Append(s, x) : s \in { t \in menores : Len(t) = n - 1 }, x \in S }

\* the lists obtener_clientes_db2 may return
Lotes == SeqsHasta(Fuente, MaxLote)

Rango(s) == { s[i] : i \in 1..Len(s) }
Ids(filas) == { filas[i].ID_SOLICITUD : i \in 1..Len(filas) }

VARIABLES
    clientes,        \* de_clientes_rpa_v2 (committed rows)
    auditoria,       \* de_sincronizacion_control (committed rows)
    procesos,        \* de_procesos_rpa
    reportes,        \* de_reportes_rpa
    daemon_running,  \* module-level flag of daemon_procesador
    hilos,           \* the daemon threads, each at its place in _daemon_loop
    respuesta,       \* what the last iniciar_daemon / detener_daemon call returned, and
                     \* the threads whose lookup was in flight when a stop was accepted
    fallos,          \* database operations of the processor that have failed
    sync,            \* the sincronizar_clientes_db2 call in progress
    llamadas,        \* the calls of sincronizar_clientes_db2 that returned
    lookup,          \* a call of generar_reporte_httpx on its own: input and result
    nombre,          \* a call of _construir_nombre_busqueda on its own: input and result
    manual           \* a second sincronizar_clientes_db2 call, made while the first runs

vars == <<clientes, auditoria, procesos, reportes, daemon_running, hilos, respuesta,
          fallos, sync, llamadas, lookup, nombre, manual>>

varsDaemon == <<procesos, reportes, daemon_running, hilos, respuesta, fallos>>
varsSync   == <<auditoria, sync, llamadas>>
varsLookup == <<lookup>>
varsNombre == <<nombre>>
varsManual == <<manual>>

\* what the engine's first call and the processor leave alone
varsAparte == <<varsLookup, varsNombre, varsManual>>

(***************************************************************************)
(* Synchronisation engine                                                  *)
(***************************************************************************)

\* obtener_ultimo_numero_sincronizacion: 1 + the highest number of the
\* ledger, 1 when the ledger is empty or the query raises
ObtenerUltimoNumero(aud, consultaOk) ==
    IF ~consultaOk THEN 1
    ELSE IF aud = <<>> THEN 1
    ELSE LET nums == { aud[i].numero_sincronizacion : i \in 1..Len(aud) }
         IN  (CHOOSE m \in nums : \A k \in nums : k <= m) + 1

\* _crear_cliente_v2
CrearClienteV2(reg) ==
    [ID_SOLICITUD      |-> reg.ID_SOLICITUD,
     APELLIDOS_CLIENTE |-> reg.APELLIDOS_CLIENTE,
     NOMBRES_CLIENTE   |-> reg.NOMBRES_CLIENTE,
     ESTADO_CONSULTA   |-> "Pendiente"]

\* db_destino.rollback() inside the insert loop: the session has one
\* transaction, opened by its first query and committed after the loop, so
\* the rollback discards every row flushed since then
Rollback(pend) == <<>>

\* a flush whose uniqueness test sees the committed rows only
FlushSoloConfirmados(reg, confirmados, pend) ==
    IF reg.malo THEN "error"
    ELSE IF reg.ID_SOLICITUD \in Ids(confirmados) THEN "dup"
    ELSE "ok"

\* db_destino.flush(): the INSERT of one row.  "error" when the table
\* rejects the values, "dup" when ID_SOLICITUD is already in the unique
\* index (committed rows and the rows flushed by this transaction)
Flush(reg, confirmados, pend) ==
    IF reg.malo THEN "error"
    ELSE IF reg.ID_SOLICITUD \in Ids(confirmados) \cup Ids(pend) THEN "dup"
    ELSE "ok"

ResultadoInicial(numero) ==
    [numero_sincronizacion |-> numero,
     registros_traidos     |-> 0,
     registros_insertados  |-> 0,
     registros_duplicados  |-> 0,
     registros_error       |-> 0,
     estado                |-> "INICIALIZANDO"]

\* an insert loop that stops at the first record the table does not take
RECURSIVE InsertarRegistrosHastaFallo(_, _, _, _)
InsertarRegistrosHastaFallo(registros, confirmados, pend, res) ==
    IF registros = <<>> THEN [pend |-> pend, res |-> res]
    ELSE LET reg == Head(registros)
             f   == Flush(reg, confirmados, pend)
         IN  IF f = "ok"
             THEN InsertarRegistrosHastaFallo(Tail(registros), confirmados,
                      Append(pend, CrearClienteV2(reg)),
                      [res EXCEPT !.registros_insertados = @ + 1])
             ELSE IF f = "dup"
             THEN [pend |-> Rollback(pend),
                   res |-> [res EXCEPT !.registros_duplicados = @ + 1]]
             ELSE [pend |-> Rollback(pend),
                   res |-> [res EXCEPT !.registros_error = @ + 1]]

\* the insert loop over registros_db2 (one iteration per call)
RECURSIVE InsertarRegistros(_, _, _, _)
InsertarRegistros(registros, confirmados, pend, res) ==
    IF registros = <<>> THEN [pend |-> pend, res |-> res]
    ELSE LET reg == Head(registros)
             f   == Flush(reg, confirmados, pend)
         IN  IF f = "ok"
             THEN InsertarRegistros(Tail(registros), confirmados,
                      Append(pend, CrearClienteV2(reg)),
                      [res EXCEPT !.registros_insertados = @ + 1])
             ELSE IF f = "dup"
             THEN InsertarRegistros(Tail(registros), confirmados, Rollback(pend),
                      [res EXCEPT !.registros_duplicados = @ + 1])
             ELSE InsertarRegistros(Tail(registros), confirmados, Rollback(pend),
                      [res EXCEPT !.registros_error = @ + 1])

\* an estado that counts a duplicate as a failure of the run
EstadoDuplicadoParcial(res) ==
    IF res.registros_error = 0 /\ res.registros_duplicados = 0 THEN "SUCCESS" ELSE "PARTIAL"

\* estado after the commit of the batch
EstadoTrasCommit(res) ==
    IF res.registros_error = 0 THEN "SUCCESS" ELSE "PARTIAL"

\* an except block that leaves estado as it was
EstadoSinAsignar == "INICIALIZANDO"

\* estado set by the except block of sincronizar_clientes_db2
EstadoCritico == "ERROR"

\* a success flag that leaves PARTIAL out
ExitoSoloSuccess(res) == res.estado = "SUCCESS"

\* exito = resultado["estado"] in ["SUCCESS", "PARTIAL"]
Exito(res) == res.estado \in {"SUCCESS", "PARTIAL"}

\* an audit row built before the counts of the run are known
FilaAuditoriaSinConteos(res) ==
    [numero_sincronizacion |-> res.numero_sincronizacion,
     registros_traidos     |-> res.registros_traidos,
     registros_insertados  |-> 0,
     registros_duplicados  |-> 0,
     registros_error       |-> 0,
     estado                |-> res.estado]

\* the DeSincronizacionControl row of the finally block
FilaAuditoria(res) ==
    [numero_sincronizacion |-> res.numero_sincronizacion,
     registros_traidos     |-> res.registros_traidos,
     registros_insertados  |-> res.registros_insertados,
     registros_duplicados  |-> res.registros_duplicados,
     registros_error       |-> res.registros_error,
     estado                |-> res.estado]

SyncIdle ==
    [pc |-> "idle", lote |-> <<>>, extOk |-> TRUE, res |-> ResultadoInicial(0),
     pend |-> <<>>, antes |-> 0, commit |-> "none", confirmadas |-> 0]

\* sincronizar_clientes_db2 up to the end of the insert loop: the run
\* number, the extraction, the inserts
SincronizarInicio(lote, extOk, consultaOk) ==
    /\ sync.pc = "idle"
    /\ Len(llamadas) < MaxLlamadas
    /\ LET numero == ObtenerUltimoNumero(auditoria, consultaOk)
           res0   == ResultadoInicial(numero)
       IN  IF ~extOk
           THEN \* obtener_clientes_db2 raises: except block, then finally
                sync' = [SyncIdle EXCEPT !.pc = "finally", !.extOk = FALSE,
                            !.res = [res0 EXCEPT !.estado = EstadoCritico],
                            !.antes = Len(clientes)]
           ELSE IF lote = <<>>
           THEN sync' = [SyncIdle EXCEPT !.pc = "finally",
                            !.res = [res0 EXCEPT !.estado = "SUCCESS"],
                            !.antes = Len(clientes)]
           ELSE LET r == InsertarRegistros(lote, clientes, <<>>,
                             [res0 EXCEPT !.registros_traidos = Len(lote)])
                IN  sync' = [SyncIdle EXCEPT !.pc = "commit", !.lote = lote,
                                !.res = r.res, !.pend = r.pend,
                                !.antes = Len(clientes)]
    /\ UNCHANGED <<clientes, auditoria, llamadas, varsDaemon, varsAparte>>

\* a commit that also returns the rows of the batch that were already in
\* the table to 'Pendiente'
SincronizarCommitRestablece(ok) ==
    /\ sync.pc = "commit"
    /\ IF ok
       THEN /\ clientes' =
                 [k \in 1..Len(clientes) |->
                     IF \E a \in 1..Len(sync.lote) :
                           sync.lote[a].ID_SOLICITUD = clientes[k].ID_SOLICITUD
                     THEN [clientes[k] EXCEPT !.ESTADO_CONSULTA = "Pendiente"]
                     ELSE clientes[k]] \o sync.pend
            /\ sync' = [sync EXCEPT !.pc = "finally", !.commit = "ok", !.pend = <<>>,
                           !.confirmadas = Len(sync.pend),
                           !.res.estado = EstadoTrasCommit(sync.res)]
       ELSE /\ clientes' = clientes
            /\ sync' = [sync EXCEPT !.pc = "finally", !.commit = "fail", !.pend = <<>>,
                           !.res.estado = EstadoCritico]
    /\ UNCHANGED <<auditoria, llamadas, varsDaemon, varsAparte>>

\* a commit whose failure leaves the flushed rows in the table
SincronizarCommitSinDeshacer(ok) ==
    /\ sync.pc = "commit"
    /\ clientes' = clientes \o sync.pend
    /\ sync' = IF ok
               THEN [sync EXCEPT !.pc = "finally", !.commit = "ok", !.pend = <<>>,
                        !.confirmadas = Len(sync.pend),
                        !.res.estado = EstadoTrasCommit(sync.res)]
               ELSE [sync EXCEPT !.pc = "finally", !.commit = "fail", !.pend = <<>>,
                        !.res.estado = EstadoCritico]
    /\ UNCHANGED <<auditoria, llamadas, varsDaemon, varsAparte>>

\* db_destino.commit() after the loop, and the estado that follows; a
\* commit that raises goes to the except block
SincronizarCommit(ok) ==
    /\ sync.pc = "commit"
    /\ IF ok
       THEN /\ clientes' = clientes \o sync.pend
            /\ sync' = [sync EXCEPT !.pc = "finally", !.commit = "ok", !.pend = <<>>,
                           !.confirmadas = Len(sync.pend),
                           !.res.estado = EstadoTrasCommit(sync.res)]
       ELSE /\ clientes' = clientes
            /\ sync' = [sync EXCEPT !.pc = "finally", !.commit = "fail", !.pend = <<>>,
                           !.res.estado = EstadoCritico]
    /\ UNCHANGED <<auditoria, llamadas, varsDaemon, varsAparte>>

\* a finally block that turns a failed audit write into a failed run
ResultadoAuditoriaFallida(res, auditOk) ==
    IF auditOk THEN res ELSE [res EXCEPT !.estado = "ERROR"]

\* the result the finally block leaves for the caller: it fills in the end
\* time and the duration, and an audit write that fails is only logged
ResultadoFinal(res, auditOk) == res

\* what the call hands back to its caller, with what the call did
Retorno(s, auditOk, filaAud) ==
    [lote     |-> s.lote,
     extOk    |-> s.extOk,
     commit   |-> s.commit,
     auditOk  |-> auditOk,
     previo   |-> s.res,
     res      |-> ResultadoFinal(s.res, auditOk),
     exito    |-> IF s.extOk /\ s.commit # "fail"
                  THEN Exito(ResultadoFinal(s.res, auditOk))
                  ELSE FALSE,   \* the except block returns False
     antes    |-> s.antes,
     confirmadas |-> s.confirmadas,
     despues  |-> Len(clientes),
     filaAud  |-> filaAud]

\* a finally block that writes its audit row over the last one
SincronizarFinallySobrescribe(auditOk) ==
    /\ sync.pc = "finally"
    /\ auditoria' = IF ~auditOk THEN auditoria
                    ELSE IF auditoria = <<>> THEN <<FilaAuditoria(sync.res)>>
                    ELSE [auditoria EXCEPT ![Len(auditoria)] = FilaAuditoria(sync.res)]
    /\ llamadas' = Append(llamadas,
                       Retorno(sync, auditOk, IF auditOk THEN Len(auditoria') ELSE 0))
    /\ sync' = SyncIdle
    /\ UNCHANGED <<clientes, varsDaemon, varsAparte>>

\* the finally block (the audit row, whose write may fail) and the return
SincronizarFinally(auditOk) ==
    /\ sync.pc = "finally"
    /\ auditoria' = IF auditOk THEN Append(auditoria, FilaAuditoria(sync.res))
                    ELSE auditoria
    /\ llamadas' = Append(llamadas,
                       Retorno(sync, auditOk, IF auditOk THEN Len(auditoria') ELSE 0))
    /\ sync' = SyncIdle
    /\ UNCHANGED <<clientes, varsDaemon, varsAparte>>

\* a second call of sincronizar_clientes_db2 (POST /iniciar, or the
\* scheduler) that starts while the first is between its start and its
\* return.  Its extraction returns no record or raises, so the two
\* transactions never meet on a row; it reads its number and goes to its
\* finally block
ManualInicio(extOk, consultaOk) ==
    /\ manual.pc = "idle"
    /\ sync.pc # "idle"
    /\ Len(llamadas) < MaxLlamadas
    /\ LET numero == ObtenerUltimoNumero(auditoria, consultaOk)
           res0   == ResultadoInicial(numero)
       IN  manual' = [SyncIdle EXCEPT !.pc = "finally", !.extOk = extOk,
                         !.res = [res0 EXCEPT !.estado = IF extOk THEN "SUCCESS"
                                                         ELSE EstadoCritico],
                         !.antes = Len(clientes)]
    /\ UNCHANGED <<clientes, varsSync, varsDaemon, varsLookup, varsNombre>>

\* the finally block and the return of the second call
ManualFinally(auditOk) ==
    /\ manual.pc = "finally"
    /\ auditoria' = IF auditOk THEN Append(auditoria, FilaAuditoria(manual.res))
                    ELSE auditoria
    /\ llamadas' = Append(llamadas,
                       Retorno(manual, auditOk, IF auditOk THEN Len(auditoria') ELSE 0))
    /\ manual' = SyncIdle
    /\ UNCHANGED <<clientes, sync, varsDaemon, varsLookup, varsNombre>>

NextSync ==
    \/ \E lote \in Lotes, extOk \in BOOLEAN, consultaOk \in BOOLEAN :
          /\ (~extOk => lote = <<>>)
          /\ SincronizarInicio(lote, extOk, consultaOk)
    \/ \E ok \in BOOLEAN : SincronizarCommit(ok)
    \/ \E auditOk \in BOOLEAN : SincronizarFinally(auditOk)

\* the engine with a second call that overlaps the first
NextSolape ==
    \/ NextSync
    \/ \E extOk \in BOOLEAN, consultaOk \in BOOLEAN : ManualInicio(extOk, consultaOk)
    \/ \E auditOk \in BOOLEAN : ManualFinally(auditOk)

(***************************************************************************)
(* External lookup (fj_httpx_fallback)                                     *)
(***************************************************************************)

MAX_PAGES == 20

\* The judicial service as one lookup sees it: the query of page falla
\* fails (status other than 200, timeout, body of an unexpected shape),
\* page vacia answers 200 with an empty list, every other page answers 200
\* with impares items (odd pages) or pares items (even pages); 0: no such page
APIs ==
    [falla : 0..MaxPagina, vacia : 0..MaxPagina,
     impares : 1..MaxPorPagina, pares : 1..MaxPorPagina]

\* a page query that reports a failure as an empty list
ConsultarPaginaApiSinDistinguir(api, page) ==
    IF page = api.falla \/ page = api.vacia
    THEN [resultados |-> 0, exitoso |-> TRUE]
    ELSE [resultados |-> IF page % 2 = 1 THEN api.impares ELSE api.pares,
          exitoso |-> TRUE]

\* _consultar_pagina_api: (resultados, fue_exitoso); resultados is the
\* length of the list
ConsultarPaginaApi(api, page) ==
    IF page = api.falla
    THEN [resultados |-> 0, exitoso |-> FALSE]
    ELSE IF page = api.vacia
    THEN [resultados |-> 0, exitoso |-> TRUE]
    ELSE [resultados |-> IF page % 2 = 1 THEN api.impares ELSE api.pares,
          exitoso |-> TRUE]

\* for page in range(2, MAX_PAGES + 1) of generar_reporte_httpx, from page
\* on; e: total_resultados, pagina_actual and the pages queried so far
RECURSIVE PaginasAdicionales(_, _, _)
PaginasAdicionales(api, page, e) ==
    IF page > MAX_PAGES THEN e
    ELSE LET r  == ConsultarPaginaApi(api, page)
             e1 == [e EXCEPT !.consultadas = Append(@, page)]
         IN  IF ~r.exitoso THEN e1
             ELSE IF r.resultados = 0 THEN e1
             ELSE PaginasAdicionales(api, page + 1,
                      [e1 EXCEPT !.pagina_actual = page,
                                 !.total_resultados = @ + r.resultados])

\* generar_reporte_httpx: (ruta_reporte, resultado_dict) and the pages it
\* queried.  docOk: the document is built and doc.save succeeds; when it is
\* not, the inner or the outer except returns scenario "error"
GenerarReporteHttpx(api, docOk) ==
    LET p1 == ConsultarPaginaApi(api, 1)
    IN  IF ~p1.exitoso
        THEN [ruta |-> None, scenario |-> "api_error", total_procesos |-> 0,
              total_paginas |-> 0, consultadas |-> <<1>>]
        ELSE LET alguna_pagina_con_datos == p1.resultados > 0
                 e0 == [total_resultados |-> p1.resultados, pagina_actual |-> 1,
                        consultadas |-> <<1>>]
                 e  == IF alguna_pagina_con_datos
                       THEN PaginasAdicionales(api, 2, e0) ELSE e0
             IN  IF ~docOk
                 THEN [ruta |-> None, scenario |-> "error", total_procesos |-> 0,
                       total_paginas |-> 0, consultadas |-> e.consultadas]
                 ELSE [ruta |-> "docx",
                       scenario |-> IF alguna_pagina_con_datos
                                    THEN "results_found" ELSE "no_results",
                       total_procesos |-> e.total_resultados,
                       total_paginas |-> e.pagina_actual,
                       consultadas |-> e.consultadas]

SinResultado ==
    [ruta |-> None, scenario |-> "", total_procesos |-> 0, total_paginas |-> 0,
     consultadas |-> <<>>]

\* no call of generar_reporte_httpx on its own
LookupIdle ==
    [pc |-> "idle", api |-> [falla |-> 0, vacia |-> 0, impares |-> 1, pares |-> 1],
     docOk |-> TRUE, res |-> SinResultado]

\* one call of generar_reporte_httpx, from its arguments to its return
GenerarReporte ==
    /\ lookup.pc = "llamada"
    /\ lookup' = [lookup EXCEPT !.pc = "retorno",
                                !.res = GenerarReporteHttpx(lookup.api, lookup.docOk)]
    /\ UNCHANGED <<clientes, varsDaemon, varsSync, varsNombre, varsManual>>

(***************************************************************************)
(* _construir_nombre_busqueda on its own                                   *)
(***************************************************************************)

\* the strings of a name column: up to MaxLargo characters out of a letter,
\* the hyphen, the period and the blank
Cadenas(letra) == SeqsHasta({letra, "-", ".", " "}, MaxLargo)

\* no call of _construir_nombre_busqueda on its own
NombreIdle == [pc |-> "idle", apellidos |-> None, nombres |-> None, res |-> <<>>]

\* one call of _construir_nombre_busqueda, from its arguments to its return
ConstruirNombre ==
    /\ nombre.pc = "llamada"
    /\ nombre' = [nombre EXCEPT !.pc = "retorno",
                     !.res = ConstruirNombreBusqueda(nombre.apellidos, nombre.nombres)]
    /\ UNCHANGED <<clientes, varsDaemon, varsSync, varsLookup, varsManual>>

(***************************************************************************)
(* Record processor (daemon)                                               *)
(***************************************************************************)

\* the outcomes generar_reporte_httpx hands to the daemon: "error" is a
\* document that could not be built or saved
Escenarios == {"results_found", "no_results", "api_error", "error"}

HiloIdle ==
    [pc |-> "idle", cliente |-> 0, proceso_id |-> 0, escenario |-> "", i |-> 0]

\* a selection that takes the newest 'Pendiente' row
ObtenerClienteMasNuevo(cls) ==
    LET pendientes == { k \in 1..Len(cls) : cls[k].ESTADO_CONSULTA = "Pendiente" }
    IN  IF pendientes = {} THEN 0
        ELSE CHOOSE k \in pendientes : \A j \in pendientes : k >= j

\* a selection that puts the rows already tried behind the rows never tried
ObtenerClienteNoIntentado(cls) ==
    LET pendientes == { k \in 1..Len(cls) : cls[k].ESTADO_CONSULTA = "Pendiente" }
        nuevos == { k \in pendientes : \A p \in 1..Len(procesos) : procesos[p].cliente_id # k }
    IN  IF pendientes = {} THEN 0
        ELSE IF nuevos # {} THEN CHOOSE k \in nuevos : \A j \in nuevos : k <= j
        ELSE CHOOSE k \in pendientes : \A j \in pendientes : k <= j

\* _obtener_cliente_pendiente: the oldest row with ESTADO_CONSULTA
\* 'Pendiente' (0: none)
ObtenerClientePendiente(cls) ==
    LET pendientes == { k \in 1..Len(cls) : cls[k].ESTADO_CONSULTA = "Pendiente" }
    IN  IF pendientes = {} THEN 0
        ELSE CHOOSE k \in pendientes : \A j \in pendientes : k <= j

\* _actualizar_cliente_estado: a write that fails is logged and rolled back
ActualizarClienteEstado(cls, cliente_id, estado, ok) ==
    IF ok /\ cliente_id \in 1..Len(cls)
    THEN [cls EXCEPT ![cliente_id].ESTADO_CONSULTA = estado]
    ELSE cls

\* _actualizar_proceso: a write that fails is logged and rolled back
ActualizarProceso(prs, proceso_id, estado, exitoso, ok) ==
    IF ok /\ proceso_id \in 1..Len(prs)
    THEN [prs EXCEPT ![proceso_id].estado = estado,
                     ![proceso_id].total_paginas_exitosas = IF exitoso THEN 1 ELSE @]
    ELSE prs

\* the DeProceso row of _crear_proceso
NuevoProceso(cliente_id) ==
    [cliente_id |-> cliente_id, estado |-> "Pendiente", total_paginas_exitosas |-> 0]

\* the DeReporte row of _guardar_reporte_en_bd
NuevoReporte(cliente_id, proceso_id, escenario) ==
    [proceso_id |-> proceso_id, cliente_id |-> cliente_id,
     generado_exitosamente |-> TRUE,
     tipo_alerta |-> IF escenario = "results_found"
                     THEN "Funcion Judicial (HTTPX con resultados)"
                     ELSE "Funcion Judicial (HTTPX sin procesos)"]

\* the estado _ejecutar_consulta_funcion_judicial gives the process when the
\* lookup did not produce a report
EstadoProcesoFallido(escenario) ==
    IF escenario = "api_error" THEN "Error_API" ELSE "Error_Total"

\* a database operation of the processor succeeds (ok) or raises
Falla(ok) ==
    /\ ok \/ fallos < MaxFallos
    /\ fallos' = IF ok THEN fallos ELSE fallos + 1

\* an iniciar_daemon that does not test the flag
IniciarDaemonSinGuardia ==
    /\ \E h \in 1..MaxHilos :
          /\ hilos[h].pc = "idle"
          /\ \A j \in 1..MaxHilos : hilos[j].pc = "idle" => h <= j
          /\ hilos' = [hilos EXCEPT ![h] = [HiloIdle EXCEPT !.pc = "while"]]
    /\ daemon_running' = TRUE
    /\ respuesta' = [op |-> "iniciar", success |-> TRUE, en_consulta |-> {}]
    /\ UNCHANGED <<clientes, procesos, reportes, fallos, varsSync, varsAparte>>

\* iniciar_daemon
IniciarDaemon ==
    IF daemon_running
    THEN /\ respuesta' = [op |-> "iniciar", success |-> FALSE, en_consulta |-> {}]
         /\ UNCHANGED <<clientes, procesos, reportes, daemon_running, hilos, fallos, varsSync, varsAparte>>
    ELSE /\ \E h \in 1..MaxHilos :
               /\ hilos[h].pc = "idle"
               /\ \A j \in 1..MaxHilos : hilos[j].pc = "idle" => h <= j
               /\ hilos' = [hilos EXCEPT ![h] = [HiloIdle EXCEPT !.pc = "while"]]
         /\ daemon_running' = TRUE
         /\ respuesta' = [op |-> "iniciar", success |-> TRUE, en_consulta |-> {}]
         /\ UNCHANGED <<clientes, procesos, reportes, fallos, varsSync, varsAparte>>

\* detener_daemon
DetenerDaemon ==
    /\ IF ~daemon_running
       THEN /\ respuesta' = [op |-> "detener", success |-> FALSE, en_consulta |-> {}]
            /\ UNCHANGED daemon_running
       ELSE /\ daemon_running' = FALSE
            /\ respuesta' = [op |-> "detener", success |-> TRUE,
                             en_consulta |-> { h \in 1..MaxHilos : hilos[h].pc = "consulta" }]
    /\ UNCHANGED <<clientes, procesos, reportes, hilos, fallos, varsSync, varsAparte>>

\* while daemon_running: the test at the top of _daemon_loop
HiloWhile(h) ==
    /\ hilos[h].pc = "while"
    /\ hilos' = [hilos EXCEPT ![h] =
                    IF daemon_running THEN [HiloIdle EXCEPT !.pc = "seleccionar"]
                    ELSE HiloIdle]
    /\ UNCHANGED <<clientes, procesos, reportes, daemon_running, respuesta, fallos, varsSync, varsAparte>>

\* cliente = _obtener_cliente_pendiente() and the search name; a query that
\* raises reaches the except of the loop
HiloSeleccionar(h, ok) ==
    /\ Falla(ok)
    /\ hilos[h].pc = "seleccionar"
    /\ Len(procesos) + Cardinality({ j \in 1..MaxHilos :
            hilos[j].pc \in {"marcar_procesando", "crear_proceso"} }) < MaxProcesos
    /\ LET c == ObtenerClientePendiente(clientes)
       IN  hilos' = [hilos EXCEPT ![h] =
               IF ~ok THEN [@ EXCEPT !.pc = "backoff"]
               ELSE IF c = 0 THEN [@ EXCEPT !.pc = "espera", !.i = 0]
               ELSE IF ConstruirNombreBusqueda(clientes[c].APELLIDOS_CLIENTE,
                                               clientes[c].NOMBRES_CLIENTE) = <<>>
               THEN [@ EXCEPT !.pc = "marcar_error", !.cliente = c]
               ELSE [@ EXCEPT !.pc = "marcar_procesando", !.cliente = c]]
    /\ UNCHANGED <<clientes, procesos, reportes, daemon_running, respuesta, varsSync, varsAparte>>

\* a loop that skips a record without a search name and leaves its estado
HiloMarcarErrorSinEstado(h, ok) ==
    /\ Falla(ok)
    /\ hilos[h].pc = "marcar_error"
    /\ hilos' = [hilos EXCEPT ![h].pc = "while"]
    /\ UNCHANGED <<clientes, procesos, reportes, daemon_running, respuesta, varsSync, varsAparte>>

\* no search name: _actualizar_cliente_estado(cliente.id, 'Error'); continue
HiloMarcarError(h, ok) ==
    /\ Falla(ok)
    /\ hilos[h].pc = "marcar_error"
    /\ clientes' = ActualizarClienteEstado(clientes, hilos[h].cliente, "Error", ok)
    /\ hilos' = [hilos EXCEPT ![h].pc = "while"]
    /\ UNCHANGED <<procesos, reportes, daemon_running, respuesta, varsSync, varsAparte>>

\* _actualizar_cliente_estado(cliente.id, 'Procesando')
HiloMarcarProcesando(h, ok) ==
    /\ Falla(ok)
    /\ hilos[h].pc = "marcar_procesando"
    /\ clientes' = ActualizarClienteEstado(clientes, hilos[h].cliente, "Procesando", ok)
    /\ hilos' = [hilos EXCEPT ![h].pc = "crear_proceso"]
    /\ UNCHANGED <<procesos, reportes, daemon_running, respuesta, varsSync, varsAparte>>

\* proceso_id = _crear_proceso(cliente.id), None when the insert fails, and
\* job_id = _obtener_job_id(proceso_id), a query of the new row: when it
\* raises, the except of the loop is reached
HiloCrearProceso(h, r) ==
    /\ Falla(r = "ok")
    /\ hilos[h].pc = "crear_proceso"
    /\ IF r = "falla_insert"
       THEN /\ procesos' = procesos
            /\ hilos' = [hilos EXCEPT ![h].pc = "revertir"]
       ELSE /\ procesos' = Append(procesos, NuevoProceso(hilos[h].cliente))
            /\ hilos' = [hilos EXCEPT ![h].pc = IF r = "ok" THEN "consulta" ELSE "backoff",
                                      ![h].proceso_id = Len(procesos) + 1]
    /\ UNCHANGED <<clientes, reportes, daemon_running, respuesta, varsSync, varsAparte>>

\* no process row: _actualizar_cliente_estado(cliente.id, 'Pendiente'); continue.
\* The write comes straight after the insert that failed and can fail with
\* it: it belongs to the failure already counted in fallos
HiloRevertir(h, ok) ==
    /\ hilos[h].pc = "revertir"
    /\ clientes' = ActualizarClienteEstado(clientes, hilos[h].cliente, "Pendiente", ok)
    /\ hilos' = [hilos EXCEPT ![h].pc = "while"]
    /\ UNCHANGED <<procesos, reportes, daemon_running, respuesta, fallos, varsSync, varsAparte>>

\* the services a cycle of the processor is answered by: page 1 fails, or
\* the first empty page is page 1, 2 or 3
APIsCiclo ==
    { [falla |-> 1, vacia |-> 0, impares |-> 1, pares |-> 1] } \cup
    { [falla |-> 0, vacia |-> v, impares |-> 1, pares |-> 1] : v \in 1..3 }

\* a lookup step that saves a report row whatever the scenario
HiloConsultaReporteSiempre(h, api, docOk, ok) ==
    /\ Falla(ok)
    /\ hilos[h].pc = "consulta"
    /\ LET resultado_httpx == GenerarReporteHttpx(api, docOk)
           escenario == resultado_httpx.scenario
       IN
       /\ reportes' = IF ok
                      THEN Append(reportes, NuevoReporte(hilos[h].cliente,
                                      hilos[h].proceso_id, escenario))
                      ELSE reportes
       /\ IF escenario \in {"results_found", "no_results"} /\ resultado_httpx.ruta # None
          THEN /\ clientes' = clientes
               /\ hilos' = [hilos EXCEPT ![h].escenario = escenario,
                                         ![h].pc = "proceso_completado"]
          ELSE /\ clientes' = ActualizarClienteEstado(clientes, hilos[h].cliente,
                                  "Pendiente", ok)
               /\ hilos' = [hilos EXCEPT ![h].escenario = escenario,
                                         ![h].pc = "proceso_error"]
    /\ UNCHANGED <<procesos, daemon_running, respuesta, varsSync, varsAparte>>

\* _ejecutar_consulta_funcion_judicial up to its first write:
\* _obtener_cliente_datos, generar_reporte_httpx (the lookup, in flight while
\* the thread is here) and the branch on the scenario.  CASO 1 and CASO 2:
\* _guardar_reporte_en_bd, whose failure is logged.  CASO 3 and the other
\* errors: _actualizar_cliente_estado(cliente_id, 'Pendiente')
HiloConsulta(h, api, docOk, ok) ==
    /\ Falla(ok)
    /\ hilos[h].pc = "consulta"
    /\ LET resultado_httpx == GenerarReporteHttpx(api, docOk)
           escenario == resultado_httpx.scenario
       IN
       IF escenario \in {"results_found", "no_results"} /\ resultado_httpx.ruta # None
       THEN /\ reportes' = IF ok
                           THEN Append(reportes, NuevoReporte(hilos[h].cliente,
                                           hilos[h].proceso_id, escenario))
                           ELSE reportes
            /\ clientes' = clientes
            /\ hilos' = [hilos EXCEPT ![h].escenario = escenario,
                                      ![h].pc = "proceso_completado"]
       ELSE /\ clientes' = ActualizarClienteEstado(clientes, hilos[h].cliente,
                               "Pendiente", ok)
            /\ reportes' = reportes
            /\ hilos' = [hilos EXCEPT ![h].escenario = escenario,
                                      ![h].pc = "proceso_error"]
    /\ UNCHANGED <<procesos, daemon_running, respuesta, varsSync, varsAparte>>

\* CASO 1 and CASO 2: _actualizar_proceso(proceso_id, 'Completado', exitoso=True)
HiloProcesoCompletado(h, ok) ==
    /\ Falla(ok)
    /\ hilos[h].pc = "proceso_completado"
    /\ procesos' = ActualizarProceso(procesos, hilos[h].proceso_id, "Completado", TRUE, ok)
    /\ hilos' = [hilos EXCEPT ![h].pc = "marcar_procesado"]
    /\ UNCHANGED <<clientes, reportes, daemon_running, respuesta, varsSync, varsAparte>>

\* an error branch after which the loop starts its next cycle at once
HiloProcesoErrorSinEspera(h, ok) ==
    /\ Falla(ok)
    /\ hilos[h].pc = "proceso_error"
    /\ procesos' = ActualizarProceso(procesos, hilos[h].proceso_id,
                       EstadoProcesoFallido(hilos[h].escenario), FALSE, ok)
    /\ hilos' = [hilos EXCEPT ![h].pc = "while"]
    /\ UNCHANGED <<clientes, reportes, daemon_running, respuesta, varsSync, varsAparte>>

\* CASO 3 and the other errors: _actualizar_proceso(proceso_id, 'Error_API' or
\* 'Error_Total', exitoso=False); the cycle ends and the wait begins
HiloProcesoError(h, ok) ==
    /\ Falla(ok)
    /\ hilos[h].pc = "proceso_error"
    /\ procesos' = ActualizarProceso(procesos, hilos[h].proceso_id,
                       EstadoProcesoFallido(hilos[h].escenario), FALSE, ok)
    /\ hilos' = [hilos EXCEPT ![h].pc = "espera", ![h].i = 0]
    /\ UNCHANGED <<clientes, reportes, daemon_running, respuesta, varsSync, varsAparte>>

\* exito: _actualizar_cliente_estado(cliente.id, 'Procesado'); the cycle ends
\* and the wait begins
HiloMarcarProcesado(h, ok) ==
    /\ Falla(ok)
    /\ hilos[h].pc = "marcar_procesado"
    /\ clientes' = ActualizarClienteEstado(clientes, hilos[h].cliente, "Procesado", ok)
    /\ hilos' = [hilos EXCEPT ![h].pc = "espera", ![h].i = 0]
    /\ UNCHANGED <<procesos, reportes, daemon_running, respuesta, varsSync, varsAparte>>

\* a wait that sleeps the whole interval without testing the flag
HiloEsperaCompleta(h) ==
    /\ hilos[h].pc = "espera"
    /\ hilos' = [hilos EXCEPT ![h] =
                    IF hilos[h].i >= EsperaTicks
                    THEN [@ EXCEPT !.pc = "while"]
                    ELSE [@ EXCEPT !.i = @ + 1]]
    /\ UNCHANGED <<clientes, procesos, reportes, daemon_running, respuesta, fallos,
                   varsSync, varsAparte>>

\* one iteration of the wait: for i in range(1800): if not daemon_running:
\* break; time.sleep(1)
HiloEspera(h) ==
    /\ hilos[h].pc = "espera"
    /\ hilos' = [hilos EXCEPT ![h] =
                    IF hilos[h].i >= EsperaTicks \/ ~daemon_running
                    THEN [@ EXCEPT !.pc = "while"]
                    ELSE [@ EXCEPT !.i = @ + 1]]
    /\ UNCHANGED <<clientes, procesos, reportes, daemon_running, respuesta, fallos, varsSync, varsAparte>>

\* an except of the loop that ends the thread
HiloBackoffTermina(h) ==
    /\ hilos[h].pc = "backoff"
    /\ hilos' = [hilos EXCEPT ![h] = HiloIdle]
    /\ UNCHANGED <<clientes, procesos, reportes, daemon_running, respuesta, fallos, varsSync, varsAparte>>

\* the except of the loop: time.sleep(60)
HiloBackoff(h) ==
    /\ hilos[h].pc = "backoff"
    /\ hilos' = [hilos EXCEPT ![h].pc = "while"]
    /\ UNCHANGED <<clientes, procesos, reportes, daemon_running, respuesta, fallos, varsSync, varsAparte>>

NextDaemon ==
    \/ IniciarDaemon
    \/ DetenerDaemon
    \/ \E h \in 1..MaxHilos :
          \/ HiloWhile(h)
          \/ \E ok \in BOOLEAN : HiloSeleccionar(h, ok)
          \/ \E ok \in BOOLEAN : HiloMarcarError(h, ok)
          \/ \E ok \in BOOLEAN : HiloMarcarProcesando(h, ok)
          \/ \E r \in {"ok", "falla_insert", "falla_job_id"} : HiloCrearProceso(h, r)
          \/ \E ok \in BOOLEAN : HiloRevertir(h, ok)
          \/ \E api \in APIsCiclo, docOk, ok \in BOOLEAN : HiloConsulta(h, api, docOk, ok)
          \/ \E ok \in BOOLEAN : HiloProcesoCompletado(h, ok)
          \/ \E ok \in BOOLEAN : HiloProcesoError(h, ok)
          \/ \E ok \in BOOLEAN : HiloMarcarProcesado(h, ok)
          \/ HiloEspera(h)
          \/ HiloBackoff(h)

Init ==
    /\ clientes = <<>>
    /\ auditoria = <<>>
    /\ procesos = <<>>
    /\ reportes = <<>>
    /\ daemon_running = FALSE
    /\ hilos = [h \in 1..MaxHilos |-> HiloIdle]
    /\ respuesta = [op |-> "none", success |-> FALSE, en_consulta |-> {}]
    /\ fallos = 0
    /\ sync = SyncIdle
    /\ llamadas = <<>>
    /\ lookup = LookupIdle
    /\ nombre = NombreIdle
    /\ manual = SyncIdle

\* the tables a processor may find when it starts: rows the engine has
\* inserted, all 'Pendiente', no ID_SOLICITUD twice
TablasIniciales ==
    { t \in SeqsHasta({ CrearClienteV2(r) : r \in { f \in Fuente : ~f.malo } }, MaxClientes) :
        \A a, b \in 1..Len(t) : a # b => t[a].ID_SOLICITUD # t[b].ID_SOLICITUD }

InitDaemon ==
    /\ clientes \in TablasIniciales
    /\ auditoria = <<>>
    /\ procesos = <<>>
    /\ reportes = <<>>
    /\ daemon_running = FALSE
    /\ hilos = [h \in 1..MaxHilos |-> HiloIdle]
    /\ respuesta = [op |-> "none", success |-> FALSE, en_consulta |-> {}]
    /\ fallos = 0
    /\ sync = SyncIdle
    /\ llamadas = <<>>
    /\ lookup = LookupIdle
    /\ nombre = NombreIdle
    /\ manual = SyncIdle

Next == NextSync \/ NextDaemon

\* the record processor alone, over a table the engine has filled
SpecDaemon == InitDaemon /\ [][NextDaemon]_vars

\* the synchronisation engine alone
SpecSync == Init /\ [][NextSync]_vars

\* the whole system
Spec == Init /\ [][Next]_vars

\* the engine and the processor over the same tables, cut down to one worker
\* thread at a time, batches of one record and one process row
Acotado ==
    /\ Cardinality({ h \in 1..MaxHilos : hilos[h].pc # "idle" }) <= 1
    /\ Len(sync.lote) <= 1
    /\ Len(procesos) <= 1

NextSistema ==
    \/ \E lote \in Lotes, extOk \in BOOLEAN, consultaOk \in BOOLEAN :
          /\ (~extOk => lote = <<>>)
          /\ SincronizarInicio(lote, extOk, consultaOk)
          /\ Acotado'
    \/ \E ok \in BOOLEAN : SincronizarCommit(ok) /\ Acotado'
    \/ \E auditOk \in BOOLEAN : SincronizarFinally(auditOk) /\ Acotado'
    \/ IniciarDaemon /\ Acotado'
    \/ DetenerDaemon /\ Acotado'
    \/ \E h \in 1..MaxHilos :
          \/ HiloWhile(h) /\ Acotado'
          \/ \E ok \in BOOLEAN : HiloSeleccionar(h, ok) /\ Acotado'
          \/ \E ok \in BOOLEAN : HiloMarcarError(h, ok) /\ Acotado'
          \/ \E ok \in BOOLEAN : HiloMarcarProcesando(h, ok) /\ Acotado'
          \/ \E r \in {"ok", "falla_insert", "falla_job_id"} :
                HiloCrearProceso(h, r) /\ Acotado'
          \/ \E ok \in BOOLEAN : HiloRevertir(h, ok) /\ Acotado'
          \/ \E api \in APIsCiclo, docOk, ok \in BOOLEAN :
                HiloConsulta(h, api, docOk, ok) /\ Acotado'
          \/ \E ok \in BOOLEAN : HiloProcesoCompletado(h, ok) /\ Acotado'
          \/ \E ok \in BOOLEAN : HiloProcesoError(h, ok) /\ Acotado'
          \/ \E ok \in BOOLEAN : HiloMarcarProcesado(h, ok) /\ Acotado'
          \/ HiloEspera(h) /\ Acotado'
          \/ HiloBackoff(h) /\ Acotado'

SpecSistema == Init /\ [][NextSistema]_vars

\* generar_reporte_httpx alone, against every service of APIs
InitLookup ==
    /\ clientes = <<>>
    /\ auditoria = <<>>
    /\ procesos = <<>>
    /\ reportes = <<>>
    /\ daemon_running = FALSE
    /\ hilos = [h \in 1..MaxHilos |-> HiloIdle]
    /\ respuesta = [op |-> "none", success |-> FALSE, en_consulta |-> {}]
    /\ fallos = 0
    /\ sync = SyncIdle
    /\ llamadas = <<>>
    /\ lookup \in [pc : {"llamada"}, api : APIs, docOk : BOOLEAN, res : {SinResultado}]
    /\ nombre = NombreIdle
    /\ manual = SyncIdle

SpecLookup == InitLookup /\ [][GenerarReporte]_vars

\* the engine with overlapping calls
SpecSolape == Init /\ [][NextSolape]_vars

\* _construir_nombre_busqueda alone, on every pair of strings of Cadenas
\* and on null columns
InitNombre ==
    /\ clientes = <<>>
    /\ auditoria = <<>>
    /\ procesos = <<>>
    /\ reportes = <<>>
    /\ daemon_running = FALSE
    /\ hilos = [h \in 1..MaxHilos |-> HiloIdle]
    /\ respuesta = [op |-> "none", success |-> FALSE, en_consulta |-> {}]
    /\ fallos = 0
    /\ sync = SyncIdle
    /\ llamadas = <<>>
    /\ lookup = LookupIdle
    /\ \/ nombre \in [pc : {"llamada"}, apellidos : Cadenas("A"),
                      nombres : Cadenas("B"), res : {<<>>}]
       \/ nombre \in [pc : {"llamada"}, apellidos : {None},
                      nombres : Cadenas("B"), res : {<<>>}]
       \/ nombre \in [pc : {"llamada"}, apellidos : Cadenas("A"),
                      nombres : {None}, res : {<<>>}]
       \/ nombre = [pc |-> "llamada", apellidos |-> None, nombres |-> None, res |-> <<>>]
    /\ manual = SyncIdle

SpecNombre == InitNombre /\ [][ConstruirNombre]_vars

(***************************************************************************)
(* Properties of the synchronisation engine (checked under SpecSync)       *)
(***************************************************************************)

Llamadas == { llamadas[i] : i \in 1..Len(llamadas) }

IdsDistintos(lote) ==
    \A a, b \in 1..Len(lote) : a # b => lote[a].ID_SOLICITUD # lote[b].ID_SOLICITUD

SinMalos(lote) == \A a \in 1..Len(lote) : ~lote[a].malo

\* the ID_SOLICITUD values the table held when call c started
IdsAntes(c) == Ids(SubSeq(clientes, 1, c.antes))

\* C1: the run number of each call of sincronizar_clientes_db2 is greater
\* than the run number of every earlier call, whatever the earlier calls
\* did (also when their audit row could not be written)
C1_NumeroCreciente ==
    /\ \A i, j \in 1..Len(llamadas) :
          i < j => llamadas[j].res.numero_sincronizacion
                     > llamadas[i].res.numero_sincronizacion
    /\ sync.pc # "idle" =>
          \A i \in 1..Len(llamadas) :
             sync.res.numero_sincronizacion > llamadas[i].res.numero_sincronizacion

\* C2: two consecutive runs over the same list of source rows (pairwise
\* distinct ids, extraction and commit succeeding): the second run inserts
\* nothing, counts as duplicates what the first counted as inserted, and
\* leaves the table as the first run left it
C2_ResincronizacionIdempotente ==
    \A i \in 1..(Len(llamadas) - 1) :
       LET a == llamadas[i]
           b == llamadas[i + 1]
       IN  (/\ a.extOk /\ b.extOk
            /\ a.commit # "fail" /\ b.commit # "fail"
            /\ a.lote = b.lote
            /\ IdsDistintos(a.lote))
           => /\ b.res.registros_insertados = 0
              /\ b.res.registros_duplicados = a.res.registros_insertados
              /\ b.despues = a.despues

\* C3: a row classified duplicate or error does not undo the insert of
\* another row of its batch: a run whose commit succeeded added as many
\* rows to the table as it counts in registros_insertados
C3_InsertAislado ==
    \A c \in Llamadas :
       (c.extOk /\ c.commit = "ok")
       => c.despues - c.antes = c.res.registros_insertados

\* C4: no two rows of de_clientes_rpa_v2, committed or flushed by the run in
\* progress, have the same ID_SOLICITUD
C4_IdSolicitudUnico ==
    LET filas == clientes \o sync.pend
    IN  \A a, b \in 1..Len(filas) :
           a # b => filas[a].ID_SOLICITUD # filas[b].ID_SOLICITUD

\* C4 witness: a batch with the same id twice has run and the table holds
\* two rows
C4_Testigo ==
    /\ Len(clientes) >= 2
    /\ \E c \in Llamadas : c.extOk /\ c.commit = "ok" /\ ~IdsDistintos(c.lote)

\* the result C5 expects of call c: n fetched, d of them present before
ResultadoEsperado(c) ==
    LET n == Len(c.lote)
        d == Cardinality(Ids(c.lote) \cap IdsAntes(c))
    IN  /\ c.res.registros_traidos = n
        /\ c.res.registros_insertados = n - d
        /\ c.res.registros_duplicados = d
        /\ c.res.registros_error = 0
        /\ c.res.estado = "SUCCESS"

C6_EstadoDelResultado ==
    \A c \in Llamadas :
       LET completa == c.extOk /\ c.commit # "fail"
       IN  /\ c.res.estado = "SUCCESS" <=> (completa /\ c.res.registros_error = 0)
           /\ c.res.estado = "PARTIAL" <=> (completa /\ c.res.registros_error > 0)
           /\ c.res.estado = "ERROR" <=> ~completa
           /\ c.exito <=> c.res.estado \in {"SUCCESS", "PARTIAL"}

\* C6 as stated: ERROR exactly when the extraction failed
C6_Original ==
    \A c \in Llamadas :
       /\ c.res.estado = "SUCCESS" <=> (c.extOk /\ c.res.registros_error = 0)
       /\ c.res.estado = "PARTIAL" <=> (c.extOk /\ c.res.registros_error > 0)
       /\ c.res.estado = "ERROR" <=> ~c.extOk
       /\ c.exito <=> c.res.estado \in {"SUCCESS", "PARTIAL"}

\* C6 witness: one run ended PARTIAL and another ERROR
C6_Testigo ==
    /\ \E c \in Llamadas : c.res.estado = "PARTIAL" /\ c.exito
    /\ \E c \in Llamadas : c.res.estado = "ERROR" /\ ~c.exito

\* C7: a run whose extraction fails returns (the except block leads to the
\* finally block and the return) success false, status ERROR, all four
\* counts 0, and adds no row to the table
C7_ExtraccionFallida ==
    /\ \A c \in Llamadas :
          ~c.extOk
          => /\ ~c.exito
             /\ c.res.estado = "ERROR"
             /\ c.res.registros_traidos = 0
             /\ c.res.registros_insertados = 0
             /\ c.res.registros_duplicados = 0
             /\ c.res.registros_error = 0
             /\ c.despues = c.antes
    /\ (sync.pc # "idle" /\ ~sync.extOk)
          => sync.pc = "finally" /\ sync.pend = <<>> /\ sync.res.estado = "ERROR"

\* C7 witness: an extraction failed over a table that holds rows
C7_Testigo ==
    \E c \in Llamadas : ~c.extOk /\ c.antes >= 1 /\ Len(clientes) = c.antes

\* C8: every run whose audit write succeeds appended exactly one row to
\* de_sincronizacion_control, with the number, the counts and the status of
\* the result it returned; the status is SUCCESS, PARTIAL or ERROR
C8_FilaDeAuditoria ==
    /\ \A i \in 1..Len(llamadas) :
          LET c == llamadas[i]
          IN  /\ c.res.estado \in {"SUCCESS", "PARTIAL", "ERROR"}
              /\ c.auditOk
                 => /\ c.filaAud = Cardinality({ j \in 1..i : llamadas[j].auditOk })
                    /\ c.filaAud \in 1..Len(auditoria)
                    /\ auditoria[c.filaAud].numero_sincronizacion
                          = c.res.numero_sincronizacion
                    /\ auditoria[c.filaAud].registros_traidos = c.res.registros_traidos
                    /\ auditoria[c.filaAud].registros_insertados
                          = c.res.registros_insertados
                    /\ auditoria[c.filaAud].registros_duplicados
                          = c.res.registros_duplicados
                    /\ auditoria[c.filaAud].registros_error = c.res.registros_error
                    /\ auditoria[c.filaAud].estado = c.res.estado
    /\ Len(auditoria) = Cardinality({ j \in 1..Len(llamadas) : llamadas[j].auditOk })

\* C8 witness: the audit row of a run whose extraction failed, and the
\* audit row of a run that inserted
C8_Testigo ==
    /\ \E c \in Llamadas : ~c.extOk /\ c.auditOk
    /\ \E c \in Llamadas : c.auditOk /\ c.res.registros_insertados >= 1

\* C9: a run whose audit write fails returns what it would have returned
\* had the write succeeded, and the rows it committed stay in the table
C9_AuditoriaFallida ==
    \A c \in Llamadas :
       ~c.auditOk
       => /\ c.res = ResultadoFinal(c.previo, TRUE)
          /\ c.exito = (c.previo.estado \in {"SUCCESS", "PARTIAL"})
          /\ c.filaAud = 0
          /\ c.despues = c.antes + c.confirmadas
          /\ Len(clientes) >= c.despues

\* C9 witness: the audit write of a run that committed a row failed
C9_Testigo ==
    \E c \in Llamadas :
       ~c.auditOk /\ c.commit = "ok" /\ c.confirmadas >= 1 /\ c.exito

(***************************************************************************)
(* Properties of the record processor (checked under SpecDaemon)           *)
(***************************************************************************)

\* the step of thread h that ends a cycle whose lookup returned escenario:
\* the last write of _ejecutar_consulta_funcion_judicial, after which the
\* loop goes to its wait
FinDeCicloFallido(h, escenario) ==
    /\ hilos[h].pc = "proceso_error"
    /\ hilos[h].escenario = escenario
    /\ hilos'[h].pc = "espera"

\* C10: when a cycle whose lookup returned api_error ends, the record is
\* 'Pendiente', the process of the cycle is 'Error_API' and no report row
\* refers to that process
C10_ApiErrorReintento ==
    [][\A h \in 1..MaxHilos :
          FinDeCicloFallido(h, "api_error")
          => /\ clientes'[hilos[h].cliente].ESTADO_CONSULTA = "Pendiente"
             /\ procesos'[hilos[h].proceso_id].estado = "Error_API"
             /\ \A r \in 1..Len(reportes') :
                   reportes'[r].proceso_id # hilos[h].proceso_id]_vars

\* the step of thread h that ends a cycle whose lookup returned escenario
\* with a document: the last write of the cycle, _actualizar_cliente_estado(
\* cliente.id, 'Procesado'), after which the loop goes to its wait
FinDeCicloExitoso(h, escenario) ==
    /\ hilos[h].pc = "marcar_procesado"
    /\ hilos[h].escenario = escenario
    /\ hilos'[h].pc = "espera"

\* the rows of de_reportes_rpa that refer to process p
ReportesDe(reps, p) == { r \in 1..Len(reps) : reps[r].proceso_id = p }

\* C11: when a cycle whose lookup returned no_results ends, the record is
\* 'Procesado', the process of the cycle is 'Completado', and exactly one
\* report row refers to that process: generated successfully and of the
\* kind that marks no judicial process found
C11_SinResultados ==
    [][\A h \in 1..MaxHilos :
          FinDeCicloExitoso(h, "no_results")
          => /\ clientes'[hilos[h].cliente].ESTADO_CONSULTA = "Procesado"
             /\ procesos'[hilos[h].proceso_id].estado = "Completado"
             /\ Cardinality(ReportesDe(reportes', hilos[h].proceso_id)) = 1
             /\ \A r \in ReportesDe(reportes', hilos[h].proceso_id) :
                   /\ reportes'[r].generado_exitosamente
                   /\ reportes'[r].tipo_alerta
                         = "Funcion Judicial (HTTPX sin procesos)"]_vars

\* C12: when a cycle whose lookup returned results_found ends (whatever the
\* number of pages and items), the record is 'Procesado', one report row
\* refers to the process of the cycle, and that process is 'Completado'
\* with total_paginas_exitosas = 1
C12_ResultadosEncontrados ==
    [][\A h \in 1..MaxHilos :
          FinDeCicloExitoso(h, "results_found")
          => /\ clientes'[hilos[h].cliente].ESTADO_CONSULTA = "Procesado"
             /\ Cardinality(ReportesDe(reportes', hilos[h].proceso_id)) = 1
             /\ procesos'[hilos[h].proceso_id].estado = "Completado"
             /\ procesos'[hilos[h].proceso_id].total_paginas_exitosas = 1]_vars

\* the rows of de_clientes_rpa_v2 in 'Procesando'
Procesando == { k \in 1..Len(clientes) : clientes[k].ESTADO_CONSULTA = "Procesando" }

\* C13: in every reachable state at most one row of de_clientes_rpa_v2 is
\* 'Procesando'
C13_UnSoloProcesando == Cardinality(Procesando) <= 1

\* the threads that are in _daemon_loop
HilosVivos(hs) == { h \in 1..MaxHilos : hs[h].pc # "idle" }

\* C14: iniciar_daemon with the flag set returns success false and changes
\* nothing (no new thread, the flag stays set); detener_daemon with the flag
\* clear returns success false and changes nothing; iniciar_daemon with the
\* flag clear sets it, starts one thread and returns success true;
\* detener_daemon with the flag set clears it and returns success true
C14_IniciarDetener ==
    [][/\ (respuesta' # respuesta /\ respuesta'.op = "iniciar")
          => IF daemon_running
             THEN /\ ~respuesta'.success
                  /\ daemon_running'
                  /\ hilos' = hilos
                  /\ UNCHANGED <<clientes, procesos, reportes>>
             ELSE /\ respuesta'.success
                  /\ daemon_running'
                  /\ Cardinality(HilosVivos(hilos')) = Cardinality(HilosVivos(hilos)) + 1
       /\ (respuesta' # respuesta /\ respuesta'.op = "detener")
          => /\ respuesta'.success = daemon_running
             /\ ~daemon_running'
             /\ hilos' = hilos
             /\ UNCHANGED <<clientes, procesos, reportes>>
       /\ (daemon_running' # daemon_running \/ HilosVivos(hilos') \ HilosVivos(hilos) # {})
          => respuesta' # respuesta /\ respuesta'.success]_vars

\* C14 witness: an iniciar_daemon was refused while a thread runs
C14_Testigo ==
    /\ respuesta.op = "iniciar" /\ ~respuesta.success
    /\ daemon_running
    /\ HilosVivos(hilos) # {}

\* thread h is inside the body of a cycle of _daemon_loop
EnCiclo(h) ==
    hilos[h].pc \in {"seleccionar", "marcar_error", "marcar_procesando", "crear_proceso",
                     "revertir", "consulta", "proceso_completado", "proceso_error",
                     "marcar_procesado"}

\* C15: at most one thread is executing a cycle of _daemon_loop at any time
C15_UnSoloHilo == Cardinality({ h \in 1..MaxHilos : EnCiclo(h) }) <= 1

\* C16: a thread in its wait that finds the flag clear at a poll leaves the
\* wait at that poll, whatever is left of the interval, and, the flag still
\* clear at the test of the while, leaves the loop; no thread selects a
\* record without having found the flag set
C16_DetenerEnEspera ==
    [][\A h \in 1..MaxHilos :
          /\ (hilos[h].pc = "espera" /\ ~daemon_running /\ hilos'[h] # hilos[h])
             => hilos'[h].pc = "while" /\ hilos'[h].i = hilos[h].i
          /\ (hilos[h].pc = "while" /\ ~daemon_running /\ hilos'[h] # hilos[h])
             => hilos'[h].pc = "idle"
          /\ (hilos[h].pc # "seleccionar" /\ hilos'[h].pc = "seleccionar")
             => hilos[h].pc = "while" /\ daemon_running]_vars

\* C16 witness: a thread that ended a cycle has left its wait before the
\* interval was over, the flag being clear
C16_Testigo ==
    \E h \in 1..MaxHilos :
       /\ hilos[h].pc = "while"
       /\ hilos[h].escenario # ""
       /\ hilos[h].i < EsperaTicks
       /\ ~daemon_running

\* C17: the row a thread selects is 'Pendiente' and no 'Pendiente' row was
\* created before it (rows are in the order of FECHA_CREACION_REGISTRO); a
\* thread takes a row only at the selection of its cycle
C17_MasAntiguoPrimero ==
    [][\A h \in 1..MaxHilos :
          /\ (hilos[h].pc = "seleccionar"
              /\ hilos'[h].pc \in {"marcar_error", "marcar_procesando"})
             => /\ hilos'[h].cliente \in 1..Len(clientes)
                /\ clientes[hilos'[h].cliente].ESTADO_CONSULTA = "Pendiente"
                /\ \A k \in 1..Len(clientes) :
                      clientes[k].ESTADO_CONSULTA = "Pendiente" => hilos'[h].cliente <= k
          /\ (hilos'[h].cliente # hilos[h].cliente /\ hilos'[h].cliente # 0)
             => hilos[h].pc = "seleccionar" /\ hilos[h].cliente = 0]_vars

\* C17 witness: a thread has selected the first of two 'Pendiente' rows
C17_Testigo ==
    \E h \in 1..MaxHilos :
       /\ hilos[h].pc = "marcar_procesando"
       /\ hilos[h].cliente = 1
       /\ Len(clientes) >= 2
       /\ clientes[1].ESTADO_CONSULTA = "Pendiente"
       /\ clientes[2].ESTADO_CONSULTA = "Pendiente"

(***************************************************************************)
(* Properties of the lookup (checked under SpecLookup)                     *)
(***************************************************************************)

\* what the service answers for page p: failure, or the number of items
Pagina1Falla(api) == api.falla = 1
Pagina1Vacia(api) == api.falla # 1 /\ api.vacia = 1
Pagina1ConDatos(api) == api.falla # 1 /\ api.vacia # 1
ItemsDe(api, p) == IF p % 2 = 1 THEN api.impares ELSE api.pares

\* the first page after page 1 that fails or is empty; MAX_PAGES + 1 when
\* pages 2..MAX_PAGES all carry items
PaginaDeParada(api) ==
    LET paradas == { p \in 2..MAX_PAGES : p = api.falla \/ p = api.vacia }
    IN  IF paradas = {} THEN MAX_PAGES + 1
        ELSE CHOOSE p \in paradas : \A q \in paradas : p <= q

RECURSIVE SumaItems(_, _)
SumaItems(api, n) == IF n = 0 THEN 0 ELSE ItemsDe(api, n) + SumaItems(api, n - 1)

C19_ClasificacionPagina1 ==
    lookup.pc = "retorno"
    => /\ lookup.res.scenario = "no_results" <=> Pagina1Vacia(lookup.api)
       /\ lookup.res.scenario = "results_found" <=> Pagina1ConDatos(lookup.api)
       /\ Pagina1Vacia(lookup.api)
          => /\ lookup.res.scenario # "api_error"
             /\ lookup.res.consultadas = <<1>>

\* C20: when page 1 carries items the lookup queries pages 2, 3, ... in
\* order and none beyond MAX_PAGES, stops at the first page k that fails or
\* is empty, and returns results_found with the items of pages 1..k-1 and
\* k-1 pages
C20_PaginasAdicionales ==
    (lookup.pc = "retorno" /\ Pagina1ConDatos(lookup.api))
    => LET k == PaginaDeParada(lookup.api)
           ultima == IF k > MAX_PAGES THEN MAX_PAGES ELSE k
       IN  /\ lookup.res.consultadas = [p \in 1..ultima |-> p]
           /\ lookup.res.scenario = "results_found"
           /\ lookup.res.total_procesos = SumaItems(lookup.api, k - 1)
           /\ lookup.res.total_paginas = k - 1

\* C21: a report row is written only by a cycle whose lookup returned
\* no_results or results_found, and no report row refers to a process whose
\* estado is 'Error_API' or 'Error_Total'
C21_ReporteSoloConResultado ==
    [][/\ Len(reportes') > Len(reportes)
          => \E h \in 1..MaxHilos :
                /\ hilos[h].pc = "consulta"
                /\ hilos'[h].pc = "proceso_completado"
                /\ hilos'[h].escenario \in {"no_results", "results_found"}
                /\ reportes'[Len(reportes')].proceso_id = hilos[h].proceso_id
       /\ \A r \in 1..Len(reportes') :
             procesos'[reportes'[r].proceso_id].estado \notin {"Error_API", "Error_Total"}]_vars

\* a process is 'Error_API' or 'Error_Total' next to the report row of
\* another cycle
C21_Testigo ==
    /\ reportes # <<>>
    /\ \E p \in 1..Len(procesos) : procesos[p].estado \in {"Error_API", "Error_Total"}

(***************************************************************************)
(* Properties of the engine and the processor together (SpecSistema)       *)
(***************************************************************************)

\* table a is the beginning of table b, row by row
Prefijo(a, b) == Len(a) <= Len(b) /\ \A i \in 1..Len(a) : a[i] = b[i]

\* C22: no step of the engine or of the processor removes a row: every row
\* of the four tables stays in its place with its identity, and a row of the
\* audit table is never changed once written
C22_SoloCrecen ==
    [][/\ Len(clientes) <= Len(clientes')
       /\ \A k \in 1..Len(clientes) :
             clientes'[k].ID_SOLICITUD = clientes[k].ID_SOLICITUD
       /\ Prefijo(auditoria, auditoria')
       /\ Len(procesos) <= Len(procesos')
       /\ \A p \in 1..Len(procesos) : procesos'[p].cliente_id = procesos[p].cliente_id
       /\ Prefijo(reportes, reportes')]_vars

\* the engine has run twice and the processor has worked on a row it wrote
C22_Testigo ==
    /\ Len(auditoria) >= 2
    /\ Len(clientes) >= 2
    /\ procesos # <<>>
    /\ reportes # <<>>

(***************************************************************************)
(* Properties of the failure paths of a cycle (checked under SpecDaemon)   *)
(***************************************************************************)

\* the ids of the source records that have no search name
IdsSinNombre ==
    { f.ID_SOLICITUD : f \in { g \in Fuente :
          ConstruirNombreBusqueda(g.APELLIDOS_CLIENTE, g.NOMBRES_CLIENTE) = <<>> } }

\* row k of the table has no search name (a row carries the names of the
\* source record with its id)
NombreVacio(k) == clientes[k].ID_SOLICITUD \in IdsSinNombre

\* thread h takes a record from the queue
Desencola(h) == hilos[h].pc = "seleccionar" /\ hilos'[h].cliente # 0

\* what a cycle does with a record that has no search name, apart from the
\* estado it leaves: the branch is taken exactly for such a record, it
\* writes no process row and no report row and makes no lookup, and a record
\* that is 'Error' stays 'Error', so that no later cycle takes it
SinNombre(h) ==
    /\ Desencola(h)
       => /\ clientes[hilos'[h].cliente].ESTADO_CONSULTA = "Pendiente"
          /\ NombreVacio(hilos'[h].cliente) <=> hilos'[h].pc = "marcar_error"
    /\ hilos[h].pc = "marcar_error" /\ hilos'[h].pc # "marcar_error"
       => /\ hilos'[h].pc = "while"
          /\ procesos' = procesos
          /\ reportes' = reportes
    /\ \A k \in 1..Len(clientes) :
          /\ clientes[k].ESTADO_CONSULTA = "Error" => clientes'[k].ESTADO_CONSULTA = "Error"
          /\ /\ clientes'[k].ESTADO_CONSULTA # clientes[k].ESTADO_CONSULTA
             /\ clientes'[k].ESTADO_CONSULTA \notin {"Pendiente", "Error"}
             => ~NombreVacio(k)

\* C23: a cycle that takes a record without a search name marks it 'Error',
\* never 'Procesando', writes no process row and makes no lookup, and the
\* record is not taken again; when the write of 'Error' fails the record
\* stays 'Pendiente'
C23_NombreVacio ==
    [][\A h \in 1..MaxHilos :
          /\ SinNombre(h)
          /\ hilos[h].pc = "marcar_error" /\ hilos'[h].pc # "marcar_error"
             => clientes'[hilos[h].cliente].ESTADO_CONSULTA =
                   IF fallos' = fallos THEN "Error"
                   ELSE clientes[hilos[h].cliente].ESTADO_CONSULTA]_vars

\* C23 as stated: the cycle always leaves the record 'Error'
C23_Original ==
    [][\A h \in 1..MaxHilos :
          /\ SinNombre(h)
          /\ hilos[h].pc = "marcar_error" /\ hilos'[h].pc # "marcar_error"
             => clientes'[hilos[h].cliente].ESTADO_CONSULTA = "Error"]_vars

\* a record without a search name has been marked 'Error' and its thread is
\* in a later cycle
C23_Testigo ==
    \E k \in 1..Len(clientes), h \in 1..MaxHilos :
       /\ NombreVacio(k)
       /\ clientes[k].ESTADO_CONSULTA = "Error"
       /\ hilos[h].pc \in {"seleccionar", "espera"}
       /\ procesos = <<>>

\* the step of thread h that ends a cycle on a failure path other than the
\* empty search name: the revert after a failed _crear_proceso, the last
\* write after api_error or after a document that could not be produced, or
\* an exception that reaches the except of the loop
FinDeCicloConFallo(h) ==
    \/ hilos[h].pc = "revertir" /\ hilos'[h].pc = "while"
    \/ FinDeCicloFallido(h, "api_error")
    \/ FinDeCicloFallido(h, "error")
    \/ hilos[h].pc = "crear_proceso" /\ hilos'[h].pc = "backoff"

\* C24: a record becomes 'Error' only when it has no search name, and every
\* other failure path of a cycle ends with the record 'Pendiente'
C24_ErrorSoloSinNombre ==
    [][/\ \A k \in 1..Len(clientes) :
             clientes[k].ESTADO_CONSULTA # "Error" /\ clientes'[k].ESTADO_CONSULTA = "Error"
             => NombreVacio(k)
       /\ \A h \in 1..MaxHilos :
             FinDeCicloConFallo(h)
             => clientes'[hilos[h].cliente].ESTADO_CONSULTA = "Pendiente"]_vars

\* the first half of C24 alone: only a record without a search name
\* becomes 'Error'
ErrorSoloSinNombre ==
    [][\A k \in 1..Len(clientes) :
          clientes[k].ESTADO_CONSULTA # "Error" /\ clientes'[k].ESTADO_CONSULTA = "Error"
          => NombreVacio(k)]_vars

\* C25: when _crear_proceso fails after the record was marked 'Procesando',
\* no process row is written, and the cycle ends with the record 'Pendiente'
\* again, without a lookup and without a report row
C25_ProcesoNoCreado ==
    [][\A h \in 1..MaxHilos :
          /\ hilos[h].pc = "crear_proceso" /\ hilos'[h].pc = "revertir"
             => procesos' = procesos
          /\ hilos[h].pc = "revertir" /\ hilos'[h].pc # "revertir"
             => /\ hilos'[h].pc = "while"
                /\ clientes'[hilos[h].cliente].ESTADO_CONSULTA = "Pendiente"
                /\ procesos' = procesos
                /\ reportes' = reportes]_vars

\* the step of thread h that ends a cycle whose lookup succeeded and whose
\* report was not produced: the document could not be rendered or saved
\* (scenario "error"), or its row could not be written
FinDeCicloSinReporte(h) ==
    \/ FinDeCicloFallido(h, "error")
    \/ /\ \/ FinDeCicloExitoso(h, "no_results")
          \/ FinDeCicloExitoso(h, "results_found")
       /\ ReportesDe(reportes, hilos[h].proceso_id) = {}

\* C26: a lookup that succeeded keeps its outcome when the report cannot be
\* rendered or persisted: the cycle ends with the process 'Completado' and
\* the record 'Procesado'
C26_ReporteNoDegrada ==
    [][\A h \in 1..MaxHilos :
          FinDeCicloSinReporte(h)
          => /\ procesos'[hilos[h].proceso_id].estado = "Completado"
             /\ clientes'[hilos[h].cliente].ESTADO_CONSULTA = "Procesado"]_vars

\* the step of thread h that ends a cycle on an unexpected exception after
\* the record was marked 'Procesando': the query of _obtener_job_id raises,
\* or the lookup does (scenario "error")
FinDeCicloConExcepcion(h) ==
    \/ hilos[h].pc = "crear_proceso" /\ hilos'[h].pc = "backoff"
    \/ FinDeCicloFallido(h, "error")

\* C27: a cycle that ends on an unexpected exception after the record was
\* marked 'Procesando' leaves the record 'Pendiente' and the process it
\* created, if any, 'Error_Total'
C27_ExcepcionInesperada ==
    [][\A h \in 1..MaxHilos :
          FinDeCicloConExcepcion(h)
          => /\ clientes'[hilos'[h].cliente].ESTADO_CONSULTA = "Pendiente"
             /\ hilos'[h].proceso_id # 0
                => procesos'[hilos'[h].proceso_id].estado = "Error_Total"]_vars

\* thread h takes a step
Avanza(h) == hilos'[h] # hilos[h]

\* C28: a worker thread ends only at the test of the loop, on finding the
\* flag false; while the flag is true that test starts a new cycle; and a
\* cycle that ends on an exception goes to the backoff and from there to the
\* test of the loop
C28_ElBucleNoTermina ==
    [][\A h \in 1..MaxHilos :
          /\ hilos[h].pc # "idle" /\ hilos'[h].pc = "idle"
             => hilos[h].pc = "while" /\ ~daemon_running
          /\ hilos[h].pc = "while" /\ Avanza(h) /\ daemon_running
             => hilos'[h].pc = "seleccionar"
          /\ hilos[h].pc \in {"seleccionar", "crear_proceso"} /\ Avanza(h) /\ fallos' > fallos
             => hilos'[h].pc \in {"backoff", "revertir"}
          /\ hilos[h].pc = "backoff" /\ Avanza(h)
             => hilos'[h].pc = "while"]_vars

\* a thread whose cycle ended on the exception of _obtener_job_id has been
\* through the backoff and is at the test of the loop with the flag true
C28_Testigo ==
    \E h \in 1..MaxHilos :
       /\ fallos > 0
       /\ hilos[h].pc = "while"
       /\ hilos[h].proceso_id # 0
       /\ hilos[h].escenario = ""
       /\ daemon_running

\* the step of thread h that ends a cycle in which it created a process
FinDeCicloConProceso(h) ==
    /\ hilos[h].pc \in {"crear_proceso", "proceso_error", "marcar_procesado"}
    /\ hilos'[h].pc \in {"espera", "backoff"}
    /\ hilos'[h].proceso_id # 0

\* C29: a process row is created 'Pendiente', and when the cycle that
\* created it ends it is 'Completado', 'Error_API' or 'Error_Total'
C29_ProcesoTerminal ==
    [][/\ Len(procesos') > Len(procesos)
          => procesos'[Len(procesos')].estado = "Pendiente"
       /\ \A h \in 1..MaxHilos :
             FinDeCicloConProceso(h)
             => procesos'[hilos'[h].proceso_id].estado
                   \in {"Completado", "Error_API", "Error_Total"}]_vars

\* the step of thread h that ends a cycle in which a lookup was made
FinDeCicloConConsulta(h) ==
    /\ hilos[h].pc \in {"proceso_error", "marcar_procesado"}
    /\ hilos'[h].pc = "espera"

\* the last call of the service was a detener_daemon that was accepted
\* while the lookup of thread h was in flight, and the flag is false
DetenidoEnConsulta(h) ==
    /\ ~daemon_running
    /\ respuesta.op = "detener"
    /\ respuesta.success
    /\ h \in respuesta.en_consulta

\* C30: after a stop that came while the lookup of thread h was in flight,
\* and without a new start, the lookup still returns into its outcome
\* branch, the cycle ends with the record 'Procesado' or 'Pendiente' and its
\* process 'Completado', 'Error_API' or 'Error_Total', and the thread then
\* leaves the wait and ends without taking another record
C30_DetenerEnConsulta ==
    [][\A h \in 1..MaxHilos :
          DetenidoEnConsulta(h) /\ ~daemon_running' /\ Avanza(h)
          => /\ hilos[h].pc = "consulta"
                => hilos'[h].pc \in {"proceso_completado", "proceso_error"}
             /\ FinDeCicloConConsulta(h)
                => /\ clientes'[hilos[h].cliente].ESTADO_CONSULTA \in {"Procesado", "Pendiente"}
                   /\ procesos'[hilos[h].proceso_id].estado
                         \in {"Completado", "Error_API", "Error_Total"}
             /\ hilos[h].pc = "espera" => hilos'[h].pc = "while"
             /\ hilos[h].pc = "while" => hilos'[h].pc = "idle"]_vars

\* the part of C30 that does not depend on the writes of the cycle: the stop
\* does not interrupt the cycle, and after the cycle the thread ends without
\* taking another record
DetenerNoInterrumpe ==
    [][\A h \in 1..MaxHilos :
          DetenidoEnConsulta(h) /\ ~daemon_running' /\ Avanza(h)
          => /\ hilos[h].pc = "consulta"
                => hilos'[h].pc \in {"proceso_completado", "proceso_error"}
             /\ hilos[h].pc = "espera" => hilos'[h].pc = "while"
             /\ hilos[h].pc = "while" => hilos'[h].pc = "idle"]_vars

\* C31: a step of the engine leaves every row that is already in the table
\* as it is, whatever its estado and whatever the processor is doing, and
\* the rows it adds are 'Pendiente'
C31_SyncNoTocaExistentes ==
    [][sync' # sync
       => /\ Prefijo(clientes, clientes')
          /\ \A k \in (Len(clientes) + 1)..Len(clientes') :
                clientes'[k].ESTADO_CONSULTA = "Pendiente"]_vars

\* the engine is about to commit a batch that holds again the record a
\* cycle of the processor has marked 'Procesando'
C31_Testigo ==
    /\ sync.pc = "commit"
    /\ \E h \in 1..MaxHilos :
          /\ hilos[h].pc = "consulta"
          /\ clientes[hilos[h].cliente].ESTADO_CONSULTA = "Procesando"
          /\ sync.lote[1].ID_SOLICITUD = clientes[hilos[h].cliente].ID_SOLICITUD

(***************************************************************************)
(* The wait between cycles (checked under SpecDaemon)                      *)
(***************************************************************************)

\* what C32 says of the cycles that end in the wait: a thread takes a
\* record only after the test of the loop; a cycle that finds no record,
\* one whose lookup failed and one that succeeded go to the wait; and the
\* wait ends only when its interval is over or the flag is false
CiclosConEspera(h) ==
    /\ hilos[h].pc # "seleccionar" /\ hilos'[h].pc = "seleccionar"
       => hilos[h].pc = "while"
    /\ hilos[h].pc = "seleccionar" /\ hilos'[h].pc # "seleccionar"
          /\ hilos'[h].cliente = 0 /\ fallos' = fallos
       => hilos'[h].pc = "espera"
    /\ hilos[h].pc \in {"proceso_error", "marcar_procesado"} /\ Avanza(h)
       => hilos'[h].pc = "espera"
    /\ hilos[h].pc = "espera" /\ hilos'[h].pc # "espera"
       => /\ hilos'[h].pc = "while"
          /\ hilos[h].i >= EsperaTicks \/ ~daemon_running

\* C32: the cycles that go back to the test of the loop without the wait
\* are the one for a record without search name and the one whose process
\* could not be created; every other cycle that ends without an exception
\* goes through the wait
C32_SinEspera ==
    [][\A h \in 1..MaxHilos :
          /\ CiclosConEspera(h)
          /\ hilos[h].pc \in {"marcar_error", "revertir"} /\ Avanza(h)
             => hilos'[h].pc = "while"
          /\ hilos[h].pc \notin {"idle", "while"} /\ hilos'[h].pc = "while"
             => hilos[h].pc \in {"marcar_error", "revertir", "espera", "backoff"}]_vars

\* C32 as stated: only the cycle for a record without search name goes back
\* to the test of the loop without the wait
C32_Original ==
    [][\A h \in 1..MaxHilos :
          /\ CiclosConEspera(h)
          /\ hilos[h].pc \notin {"idle", "while"} /\ hilos'[h].pc = "while"
             => hilos[h].pc \in {"marcar_error", "espera", "backoff"}]_vars

\* a thread is back at the test of the loop, without having waited, after
\* the process of a record with a search name could not be created
C32_Testigo ==
    \E h \in 1..MaxHilos :
       /\ hilos[h].pc = "while"
       /\ hilos[h].cliente # 0
       /\ ~NombreVacio(hilos[h].cliente)
       /\ hilos[h].proceso_id = 0
       /\ fallos > 0

(***************************************************************************)
(* Properties of _construir_nombre_busqueda (checked under SpecNombre)     *)
(***************************************************************************)

\* a column as a string: null is the empty string
Texto(c) == IF c = None THEN <<>> ELSE c

\* a character that is not a blank, a hyphen or a period
EsLetra(c) == c \notin {" ", "-", "."}

\* the letters of a string, in their order
Letras(s) == SelectSeq(s, EsLetra)

\* C33: the search name has no hyphen and no period, no blank at either
\* end and no two blanks in a row; it holds the letters of the last name and
\* then those of the first name, with a blank between the two parts when
\* both have letters; and it is empty exactly when neither column has a
\* letter
C33_NombreDeBusqueda ==
    nombre.pc = "retorno"
    => LET r == nombre.res
           a == Letras(Texto(nombre.apellidos))
           n == Letras(Texto(nombre.nombres))
       IN  /\ \A i \in 1..Len(r) : r[i] \notin {"-", "."}
           /\ r # <<>> => r[1] # " " /\ r[Len(r)] # " "
           /\ \A i \in 1..(Len(r) - 1) : ~(r[i] = " " /\ r[i + 1] = " ")
           /\ Letras(r) = a \o n
           /\ a # <<>> /\ n # <<>>
              => \E i \in 1..Len(r) :
                    /\ r[i] = " "
                    /\ Letras(SubSeq(r, 1, i - 1)) = a
                    /\ Letras(SubSeq(r, i + 1, Len(r))) = n
           /\ r = <<>> <=> (a = <<>> /\ n = <<>>)

\* a last name with a hyphen and a first name with a period and a blank
C33_Testigo ==
    /\ nombre.pc = "retorno"
    /\ Texto(nombre.apellidos) = <<"A", "-", "A">>
    /\ Texto(nombre.nombres) = <<".", "B", " ">>
    /\ nombre.res = <<"A", " ", "A", " ", "B">>

(***************************************************************************)
(* Properties of overlapping calls of the engine (checked under SpecSolape)*)
(***************************************************************************)

\* C34: a call that starts while another call is running gets a number
\* different from the number of that call, and no two rows of the audit
\* table carry the same number
C34_NumerosDistintos ==
    [][/\ manual.pc = "idle" /\ manual'.pc # "idle"
          => manual'.res.numero_sincronizacion # sync.res.numero_sincronizacion
       /\ \A i, j \in 1..Len(auditoria') :
             i # j => auditoria'[i].numero_sincronizacion
                         # auditoria'[j].numero_sincronizacion]_vars

(***************************************************************************)
(* More properties of the engine (checked under SpecSync)                  *)
(***************************************************************************)

\* C35: in the result of every call the fetched records are the inserted,
\* the duplicate and the failed ones together, and after an extraction that
\* succeeded they are the records of the batch
C35_TraidosClasificados ==
    \A c \in Llamadas :
       /\ c.res.registros_traidos =
             c.res.registros_insertados + c.res.registros_duplicados
                + c.res.registros_error
       /\ c.extOk => c.res.registros_traidos = Len(c.lote)

\* a call whose batch began with a record already in the table and went on
\* to insert the next one
C35_Testigo ==
    \E c \in Llamadas :
       /\ Len(c.lote) = 2
       /\ c.lote[1].ID_SOLICITUD \in IdsAntes(c)
       /\ c.res.registros_duplicados = 1
       /\ c.res.registros_insertados = 1

\* the counts the insert loop of call c leaves
ConteosDelBucle(c) ==
    InsertarRegistros(c.lote, SubSeq(clientes, 1, c.antes), <<>>,
        [ResultadoInicial(c.res.numero_sincronizacion)
            EXCEPT !.registros_traidos = Len(c.lote)]).res

FueraDeCiclo == \A h \in 1..MaxHilos : hilos[h].pc \in {"espera", "backoff", "idle"}

\* C36: while every worker thread is outside a cycle body, no row of the
\* table is 'Procesando'
C36_NingunoAtascado == FueraDeCiclo => Procesando = {}

\* the process rows of record k that are 'Completado'
CompletadosDe(prs, k) ==
    { p \in 1..Len(prs) : prs[p].cliente_id = k /\ prs[p].estado = "Completado" }

\* C38: a record that is 'Procesado' or 'Error' keeps its estado, is not
\* taken from the queue and has no lookup made for it; and no record has
\* more than one 'Completado' process or more than one report row
C38_SinTrabajoDuplicado ==
    [][/\ \A k \in 1..Len(clientes) :
             clientes[k].ESTADO_CONSULTA \in {"Procesado", "Error"}
             => clientes'[k].ESTADO_CONSULTA = clientes[k].ESTADO_CONSULTA
       /\ \A h \in 1..MaxHilos :
             /\ Desencola(h)
                => clientes[hilos'[h].cliente].ESTADO_CONSULTA \notin {"Procesado", "Error"}
             /\ hilos[h].pc = "consulta" /\ Avanza(h)
                => clientes[hilos[h].cliente].ESTADO_CONSULTA \notin {"Procesado", "Error"}
       /\ \A k \in 1..Len(clientes') :
             /\ Cardinality(CompletadosDe(procesos', k)) <= 1
             /\ Cardinality({ r \in 1..Len(reportes') : reportes'[r].cliente_id = k }) <= 1]_vars


\* the services whose lookup ends with a report: no page fails
APIsVivo == { a \in APIsCiclo : a.falla = 0 }

\* one step of thread h of _daemon_loop when every lookup returns
\* 'results_found' or 'no_results' and the report document is saved
PasoHilo(h) ==
    \/ HiloWhile(h)
    \/ \E ok \in BOOLEAN : HiloSeleccionar(h, ok)
    \/ \E ok \in BOOLEAN : HiloMarcarError(h, ok)
    \/ \E ok \in BOOLEAN : HiloMarcarProcesando(h, ok)
    \/ \E r \in {"ok", "falla_insert", "falla_job_id"} : HiloCrearProceso(h, r)
    \/ \E ok \in BOOLEAN : HiloRevertir(h, ok)
    \/ \E api \in APIsVivo, ok \in BOOLEAN : HiloConsulta(h, api, TRUE, ok)
    \/ \E ok \in BOOLEAN : HiloProcesoCompletado(h, ok)
    \/ \E ok \in BOOLEAN : HiloMarcarProcesado(h, ok)
    \/ HiloEspera(h)
    \/ HiloBackoff(h)

\* the processor is started and never stopped
NextVivo ==
    \/ IniciarDaemon
    \/ \E h \in 1..MaxHilos : PasoHilo(h)

\* the thread of _daemon_loop is scheduled: a step it can take is not
\* put off for ever
SpecVivo ==
    /\ InitDaemon
    /\ [][NextVivo]_vars
    /\ \A h \in 1..MaxHilos : WF_vars(PasoHilo(h))

\* C37: with the processor running, a 'Pendiente' record ends as 'Procesado'
\* when it has a search name and as 'Error' when it has none
C37_PendienteTermina ==
    \A k \in 1..MaxClientes :
        (/\ daemon_running
         /\ k <= Len(clientes)
         /\ clientes[k].ESTADO_CONSULTA = "Pendiente")
        ~> (/\ k <= Len(clientes)
            /\ clientes[k].ESTADO_CONSULTA = IF NombreVacio(k) THEN "Error" ELSE "Procesado")


\* row k is 'Pendiente' and a lookup for it ended with an API error
ReintentoPendiente(cls, prs, k) ==
    /\ cls[k].ESTADO_CONSULTA = "Pendiente"
    /\ \E p \in 1..Len(prs) : prs[p].cliente_id = k /\ prs[p].estado = "Error_API"

\* C40: a record back in 'Pendiente' after an API error keeps its place in
\* the order of creation, and with one worker thread the next selection that
\* finds a record takes that record, not one created after it
C40_ReintentoPrimero ==
    [][/\ \A k \in 1..Len(clientes) :
             /\ k <= Len(clientes')
             /\ clientes'[k].ID_SOLICITUD = clientes[k].ID_SOLICITUD
       /\ \A h \in 1..MaxHilos :
             Desencola(h)
             => \A k \in 1..Len(clientes) :
                    ReintentoPendiente(clientes, procesos, k) => hilos'[h].cliente = k]_vars

\* the record of a failed lookup has been selected again while a record
\* created after it is 'Pendiente'
C40_Testigo ==
    \E h \in 1..MaxHilos :
        /\ hilos[h].pc = "marcar_procesando"
        /\ hilos[h].cliente \in 1..Len(clientes)
        /\ ReintentoPendiente(clientes, procesos, hilos[h].cliente)
        /\ \E j \in 1..Len(clientes) :
              j > hilos[h].cliente /\ clientes[j].ESTADO_CONSULTA = "Pendiente"

=============================================================================
